---------------------------- MODULE Spec2Model ----------------------------
(***************************************************************************)
(* A model of vs-base-kits: the Throttler (src/src/common/throttler.ts),   *)
(* the Emitter and its LeakageMonitor (src/src/common/event.ts) and the    *)
(* disposables DisposableStore / SafeDisposable                            *)
(* (src/src/common/lifecycle.ts).                                          *)
(*                                                                         *)
(* JavaScript runs one call stack at a time.  Synchronous calls that hand  *)
(* control to user code (a task factory, a listener callback, a            *)
(* disposable's dispose) are modelled with an explicit call stack, so that *)
(* re-entrant calls made by that user code are steps of the model.         *)
(* Every component has its own specification over its own variables; the   *)
(* other variables keep their initial values.                              *)
(***************************************************************************)
EXTENDS Integers, Sequences, FiniteSets, TLC

VARIABLES
    \* ---- Throttler (throttler.ts)
    activePromise,          \* 0 = null, else the id of the task whose promise it is
    queuedPromiseFactory,   \* FIFO of the ids of the queued FactoryListItems
    onPromiseCompleted,     \* listeners of _onPromiseCompleted: the taskId each closes over
    thDisposed,             \* Throttler.dispose() has run (its Emitter is disposed)
    task,                   \* id -> [st, res]: the life of each task
    future,                 \* id -> the promise queue() returned: "none", "pending" or a result
    awaiting,               \* the run() calls suspended at `await`: [next, promise]
    thStack,                \* the factories being executed now: [next, sub]
    started,                \* ghost: ids in the order their factories were invoked
    nextId,                 \* generateUuid(): the next fresh token
    completions,            \* ghost: every completion event fired and the listeners invoked
    \* ---- Emitter (event.ts)
    listenersDefined,       \* this._listeners has been created (event.ts:197-199)
    listeners,              \* _listeners: the listener ids, in list order
    deliveryQueue,          \* _deliveryQueue: the pairs [lis, ev] (src: ghost, the fire that queued it)
    disposed,               \* _disposed
    handle,                 \* listener id -> its subscription (a SafeDisposable) and ghosts
    hooks,                  \* whether _options has hooks, and how often each was invoked
    stack,                  \* the call stack: fire() frames and listener callback frames
    exc,                    \* an exception is propagating up the stack
    log,                    \* ghost: every listener invocation, in order
    fires,                  \* ghost: every fire() call, in call order
    nextListener,           \* ghost: the number of event() calls so far, plus one
    nEmitterDispose,        \* ghost: the number of Emitter.dispose() calls so far
    subsAtDispose,          \* ghost: the number of event() calls made before Emitter.dispose()
    hookLog,                \* ghost: every hook invocation and the list size it found
    \* ---- DisposableStore (lifecycle.ts)
    toDispose,              \* _toDispose: the owned resources, in insertion order
    isDisposed,             \* _isDisposed
    stStack,                \* the call stack: clear() sweeps and resources' dispose() calls
    stExc,                  \* the error propagating to the caller of clear()/dispose()
    disposeCalls,           \* ghost: resource -> how often the store called its dispose()
    leaked,                 \* ghost: the resources add() warned about
    sweeps,                 \* ghost: every clear() that has ended, in order
    stOps,                  \* ghost: the number of add/clear/dispose calls so far
    addLog,                 \* ghost: every add()/_register() call, in order
    \* ---- SafeDisposable (lifecycle.ts)
    callback,               \* the closure variable `callback`: TRUE when it holds fn
    armed,                  \* set(fn) has been called
    cbDepth,                \* the number of executions of fn on the call stack
    cellLog,                \* ghost: the calls made and the invocations of fn, in order
    \* ---- LeakageMonitor and the Emitter's use of it (event.ts)
    globalLeakWarningThreshold, \* _globalLeakWarningThreshold
    leakageMon,             \* _leakageMon: whether it exists, and its customThreshold
    lkSize,                 \* _listeners.size
    warnCountdown2,         \* twice _warnCountdown (it moves in halves)
    stacks,                 \* _stacks: call site -> count
    monitored,              \* call site -> live subscriptions holding a removeMonitor
    warnings,               \* ghost: the leak warnings logged so far
    lkSubs,                 \* ghost: the number of event() calls so far
    lkDisposals             \* ghost: the number of handle disposals so far

thVars == <<activePromise, queuedPromiseFactory, onPromiseCompleted, thDisposed,
            task, future, awaiting, thStack, started, nextId, completions>>

emVars == <<listenersDefined, listeners, deliveryQueue, disposed, handle, hooks,
            stack, exc, log, fires, nextListener, nEmitterDispose, subsAtDispose,
            hookLog>>

stVars == <<toDispose, isDisposed, stStack, stExc, disposeCalls, leaked, sweeps, stOps,
            addLog>>

cellVars == <<callback, armed, cbDepth, cellLog>>

lkVars == <<globalLeakWarningThreshold, leakageMon, lkSize, warnCountdown2, stacks,
            monitored, warnings, lkSubs, lkDisposals>>

vars == <<thVars, emVars, stVars, cellVars, lkVars>>

nonThVars == <<emVars, stVars, cellVars, lkVars>>

nonEmVars == <<thVars, stVars, cellVars, lkVars>>

nonStVars == <<thVars, emVars, cellVars, lkVars>>

nonCellVars == <<thVars, emVars, stVars, lkVars>>

nonLkVars == <<thVars, emVars, stVars, cellVars>>

-----------------------------------------------------------------------------
(* Bounds *)
MaxTasks == 3

MaxListeners == 3

MaxFires == 2

MaxDisposeCalls == 2

MaxHandleDisposals == 2

MaxResources == 3

MaxStoreOps == 4

MaxCellCalls == 4

MaxLeakSubscriptions == 34

MaxLeakDisposals == 2

Results == {"a", "b"}

-----------------------------------------------------------------------------
(* LinkedList (./linkedList, not among the sources): an insertion-ordered   *)
(* container; push appends, the function push returns removes that item,    *)
(* clear drops every item.  Items are identified by their (unique) ids.     *)
LLPush(l, x) == Append(l, x)

LLRemove(l, x) == SelectSeq(l, LAMBDA y : y # x)

LLClear(l) == <<>>

LLIsEmpty(l) == Len(l) = 0

Range(s) == {s[i] : i \in DOMAIN s}

-----------------------------------------------------------------------------
(* Throttler *)

NoTask == [st |-> "none", res |-> "none"]

InitThrottler ==
    /\ activePromise = 0
    /\ queuedPromiseFactory = <<>>
    /\ onPromiseCompleted = <<>>
    /\ thDisposed = FALSE
    /\ task = [i \in 1..MaxTasks |-> NoTask]
    /\ future = [i \in 1..MaxTasks |-> "none"]
    /\ awaiting = {}
    /\ thStack = <<>>
    /\ started = <<>>
    /\ nextId = 1
    /\ completions = <<>>

\* throttler.ts:39-43: the listener queue() registers resolves its promise
\* when the completion event carries its own taskId.
ListenerMatchesAny(e, taskId) == TRUE

ListenerMatches(e, taskId) == e.id = taskId

\* resolve(e.result): a promise settles once, later calls change nothing.
Resolve(fut, taskId, result) ==
    IF fut[taskId] = "pending" THEN [fut EXCEPT ![taskId] = result] ELSE fut

\* event.ts:271-285 for the Throttler's own emitter: pair every listener with
\* the event, then shift and invoke the pairs in order.
RECURSIVE ThDrain(_, _)
ThDrain(q, fut) ==
    IF q = <<>> THEN fut
    ELSE LET taskId == Head(q)[1]
             e == Head(q)[2]
         IN  ThDrain(Tail(q),
                     IF ListenerMatches(e, taskId)
                     THEN Resolve(fut, taskId, e.result) ELSE fut)

\* event.ts:271-273: one pair per listener of the completion emitter.
ThPairsOwn(ls, e) ==
    LET own == SelectSeq(ls, LAMBDA l : l = e.id)
    IN  [i \in 1..Len(own) |-> <<own[i], e>>]

ThPairs(ls, e) == [i \in 1..Len(ls) |-> <<ls[i], e>>]

ThFire(e, fut) == ThDrain(ThPairs(onPromiseCompleted, e), fut)

\* The queue() calls that have returned: all but those whose run() is still
\* inside a task factory.
QueueCalls ==
    (nextId - 1) - Len(SelectSeq(thStack, LAMBDA f : f.sub # 0))

\* The record of a fire of the completion event: the listeners it invoked.
Completion(e) ==
    LET ps == ThPairs(onPromiseCompleted, e)
    IN  [id |-> e.id, to |-> [i \in 1..Len(ps) |-> ps[i][1]],
         calls |-> QueueCalls, disposed |-> thDisposed]

\* throttler.ts:48: the guard of run().
RunGuard(q, active) == Len(q) > 0 /\ active = 0

\* throttler.ts:38-44: queue() subscribes its listener and returns the promise.
Subscribed(id) ==
    /\ onPromiseCompleted' = LLPush(onPromiseCompleted, id)
    /\ future' = [future EXCEPT ![id] = "pending"]

\* throttler.ts:31-37: queue(promiseFactory), from top level or from inside a
\* task factory that is executing.  run() runs synchronously up to its first
\* await: when its guard holds it removes the head item and calls its factory
\* (line 50), which is user code: a frame of thStack.  The rest of queue()
\* (lines 38-44) runs when that call has come back.
Queue ==
    /\ nextId <= MaxTasks
    /\ LET id == nextId
           q  == Append(queuedPromiseFactory, id)
       IN  /\ nextId' = nextId + 1
           /\ IF RunGuard(q, activePromise)
              THEN /\ queuedPromiseFactory' = Tail(q)
                   /\ task' = [task EXCEPT ![id] = [st |-> "queued", res |-> "none"],
                                           ![Head(q)] = [st |-> "factory", res |-> "none"]]
                   /\ started' = Append(started, Head(q))
                   /\ thStack' = Append(thStack, [next |-> Head(q), sub |-> id])
                   /\ UNCHANGED <<onPromiseCompleted, future>>
              ELSE /\ queuedPromiseFactory' = q
                   /\ task' = [task EXCEPT ![id] = [st |-> "queued", res |-> "none"]]
                   /\ Subscribed(id)
                   /\ UNCHANGED <<started, thStack>>
    /\ UNCHANGED <<activePromise, thDisposed, awaiting, completions>>
    /\ UNCHANGED nonThVars

\* The caller of run() resumes: queue() goes on to lines 38-44; the
\* continuation of an earlier run() (line 58) has nothing left to do.
Returned(frame) ==
    IF frame.sub # 0 THEN Subscribed(frame.sub)
    ELSE UNCHANGED <<onPromiseCompleted, future>>

Top(s) == s[Len(s)]

Pop(s) == SubSeq(s, 1, Len(s) - 1)

\* throttler.ts:50-51: the factory returns its promise; run() stores it in
\* activePromise and suspends awaiting the value it reads back.
FactoryReturn ==
    /\ thStack # <<>>
    /\ LET f == Top(thStack)
       IN  /\ activePromise' = f.next
           /\ awaiting' = awaiting \cup {[next |-> f.next, promise |-> f.next]}
           /\ task' = [task EXCEPT ![f.next].st = "running"]
           /\ Returned(f)
    /\ thStack' = Pop(thStack)
    /\ UNCHANGED <<queuedPromiseFactory, thDisposed, started, nextId, completions>>
    /\ UNCHANGED nonThVars

\* throttler.ts:50: the factory throws: the async run() ends rejected, line 50's
\* assignment never happens, and its caller carries on.
FactoryThrow ==
    /\ thStack # <<>>
    /\ LET f == Top(thStack)
       IN  /\ task' = [task EXCEPT ![f.next].st = "threw"]
           /\ Returned(f)
    /\ thStack' = Pop(thStack)
    /\ UNCHANGED <<activePromise, queuedPromiseFactory, thDisposed, awaiting,
                   started, nextId, completions>>
    /\ UNCHANGED nonThVars

\* The promise a factory returned fulfils with a result, or rejects.
Fulfil ==
    \E i \in 1..MaxTasks, r \in Results :
        /\ task[i].st = "running"
        /\ task' = [task EXCEPT ![i] = [st |-> "fulfilled", res |-> r]]
        /\ UNCHANGED <<activePromise, queuedPromiseFactory, onPromiseCompleted,
                       thDisposed, future, awaiting, thStack, started, nextId,
                       completions>>
    /\ UNCHANGED nonThVars

Reject ==
    \E i \in 1..MaxTasks :
        /\ task[i].st = "running"
        /\ task' = [task EXCEPT ![i] = [st |-> "rejected", res |-> "none"]]
        /\ UNCHANGED <<activePromise, queuedPromiseFactory, onPromiseCompleted,
                       thDisposed, future, awaiting, thStack, started, nextId,
                       completions>>
    /\ UNCHANGED nonThVars

\* throttler.ts:51-58: a suspended run() resumes (a microtask: the call stack
\* is empty) with the value of the promise it awaited: it clears
\* activePromise, fires the completion event and calls run() again, which may
\* call the next factory.
Resume ==
    /\ thStack = <<>>
    /\ \E c \in awaiting :
        /\ task[c.promise].st = "fulfilled"
        /\ awaiting' = awaiting \ {c}
        /\ activePromise' = 0
        /\ future' = ThFire([id |-> c.next, result |-> task[c.promise].res], future)
        /\ completions' = Append(completions,
               Completion([id |-> c.next, result |-> task[c.promise].res]))
        /\ IF RunGuard(queuedPromiseFactory, 0)
           THEN LET next == Head(queuedPromiseFactory)
                IN  /\ queuedPromiseFactory' = Tail(queuedPromiseFactory)
                    /\ task' = [task EXCEPT ![next].st = "factory"]
                    /\ started' = Append(started, next)
                    /\ thStack' = Append(thStack, [next |-> next, sub |-> 0])
           ELSE UNCHANGED <<queuedPromiseFactory, task, started, thStack>>
    /\ UNCHANGED <<onPromiseCompleted, thDisposed, nextId>>
    /\ UNCHANGED nonThVars

\* throttler.ts:51: the awaited promise rejected: `await` throws, run() ends
\* there and lines 52-58 are skipped.
ResumeRejected ==
    /\ thStack = <<>>
    /\ \E c \in awaiting :
        /\ task[c.promise].st = "rejected"
        /\ awaiting' = awaiting \ {c}
    /\ UNCHANGED <<activePromise, queuedPromiseFactory, onPromiseCompleted,
                   thDisposed, task, future, thStack, started, nextId, completions>>
    /\ UNCHANGED nonThVars

\* lifecycle.ts:204-208 and event.ts:155-188: Throttler.dispose() disposes
\* the store holding _onPromiseCompleted, whose listeners are cleared.  A
\* second dispose() returns at lifecycle.ts:146.
ThrottlerDispose ==
    /\ ~thDisposed
    /\ thDisposed' = TRUE
    /\ onPromiseCompleted' = LLClear(onPromiseCompleted)
    /\ UNCHANGED <<activePromise, queuedPromiseFactory, task, future, awaiting,
                   thStack, started, nextId, completions>>
    /\ UNCHANGED nonThVars

NextThrottler ==
    \/ Queue
    \/ FactoryReturn
    \/ FactoryThrow
    \/ Fulfil
    \/ Reject
    \/ Resume
    \/ ResumeRejected
    \/ ThrottlerDispose

-----------------------------------------------------------------------------
(* Throttler: the claims *)

\* The tasks whose factory has been invoked and which have not completed.
Executing == {i \in 1..MaxTasks : task[i].st \in {"factory", "running"}}

Settled(i) == task[i].st \in {"fulfilled", "rejected", "threw"}

\* C1: at most one task factory has been started and not yet completed at
\* any time, whatever the sequence of queue() calls, those made from inside a
\* running task factory included.
C1_MutualExclusion == Cardinality(Executing) <= 1

\* C2: factories are started in the order of their queue() calls, and a task
\* queued before an earlier one has settled is not started until that earlier
\* task has settled.
C2_FifoOrder ==
    /\ \A k \in 1..(Len(started) - 1) : started[k] < started[k + 1]
    /\ \A i, j \in 1..MaxTasks :
           (i < j /\ task[j].st \notin {"none", "queued"}) => Settled(i)

\* C3: the promise queue(f) returned, if it resolves, resolves with the
\* result of f's own task, never with that of a task another call queued.
C3_ResultCorrelation ==
    \A i \in 1..MaxTasks :
        future[i] \in Results =>
            /\ task[i].st = "fulfilled"
            /\ future[i] = task[i].res

\* Task 2's promise resolved with its own "b" by a completion event that task
\* 3's listener also received (3 was queued then: run() started it on
\* resuming), after task 1's promise resolved with a different result.
C3_Witness ==
    /\ future[1] = "a"
    /\ future[2] = "b"
    /\ future[3] = "pending"
    /\ thStack = <<[next |-> 3, sub |-> 0]>>

\* The tasks removed from the pending queue whose run() has not finished with
\* them: the factory is executing, its promise is pending, or the promise
\* has settled and the run() awaiting it has not resumed yet.
InFlight ==
    {i \in 1..MaxTasks :
        \/ task[i].st \in {"factory", "running"}
        \/ \E c \in awaiting : c.promise = i}

\* C18: in every reachable state activePromise is non-null exactly when a
\* task factory has been started and its task has not completed, and at most
\* one task has been removed from the pending queue without having completed.
C18_ActiveInvariant ==
    /\ activePromise # 0 <=> InFlight # {}
    /\ Cardinality(InFlight) <= 1

\* C19: every started task settling in the end, a task passed to queue() does
\* not stay in the pending queue forever: its factory is eventually started.
C19_Progress ==
    \A i \in 1..MaxTasks : (task[i].st = "queued") ~> (task[i].st # "queued")

\* C20: until the Throttler is disposed the completion emitter holds one
\* listener per queue() call made so far, none being removed when its task
\* completes, and every completion event was delivered to every listener
\* registered by then.
C20_ListenerAccumulation ==
    /\ ~thDisposed => Len(onPromiseCompleted) = QueueCalls
    /\ \A k \in DOMAIN completions :
           ~completions[k].disposed
               => /\ Len(completions[k].to) = completions[k].calls
                  /\ Range(completions[k].to) = 1..completions[k].calls

\* Three queue() calls, all three tasks completed: three listeners are still
\* registered, and the third completion event went to all three.
C20_Witness ==
    /\ ~thDisposed
    /\ nextId = 4
    /\ Len(onPromiseCompleted) = 3
    /\ Len(completions) = 3
    /\ Len(completions[3].to) = 3
    /\ completions[1].calls = 3
    /\ \A i \in 1..MaxTasks : task[i].st = "fulfilled"

-----------------------------------------------------------------------------
(* Emitter (event.ts:140-297), constructed with no leakage monitor (the     *)
(* process-wide threshold is -1, event.ts:7) and no profiler.  Listeners    *)
(* are numbered in the order of the event() calls that subscribed them.     *)

\* The values fired.
Events == {"a", "b"}

NoHandle == [cell |-> "none", calls |-> 0, idle |-> FALSE]

\* The emitter as constructed, with or without the hooks among its options.
EmitterConstructed(withHooks) ==
    /\ listenersDefined = FALSE
    /\ listeners = <<>>
    /\ deliveryQueue = <<>>
    /\ disposed = FALSE
    /\ handle = [l \in 1..MaxListeners |-> NoHandle]
    /\ hooks = [on |-> withHooks, firstAdd |-> 0, firstDidAdd |-> 0, lastRemove |-> 0]
    /\ stack = <<>>
    /\ exc = FALSE
    /\ log = <<>>
    /\ fires = <<>>
    /\ nextListener = 1
    /\ nEmitterDispose = 0
    /\ subsAtDispose = 0
    /\ hookLog = <<>>

InitEmitter == \E withHooks \in BOOLEAN : EmitterConstructed(withHooks)

\* User code is running: at top level, or inside a listener callback.
TopIsCallback == IF stack = <<>> THEN FALSE ELSE Top(stack).k = "cb"

TopIsFire == IF stack = <<>> THEN FALSE ELSE Top(stack).k = "fire"

UserCode == ~exc /\ (stack = <<>> \/ TopIsCallback)

InFire == ~exc /\ TopIsFire

\* The record of a hook invocation: the hook and the size of the listener
\* list at that moment.
Hooked(hook, ls) == [hook |-> hook, size |-> Len(ls)]

\* event.ts:291-296: hasListeners().
HasListeners == listenersDefined /\ ~LLIsEmpty(listeners)

\* event.ts:196-252: event(callback).  The subscription's callback is armed
\* by SafeDisposable.set (lifecycle.ts:227-239).
Subscribe ==
    /\ UserCode
    /\ nextListener <= MaxListeners
    /\ LET l == nextListener
           firstListener == LLIsEmpty(listeners)
       IN  /\ listenersDefined' = TRUE
           /\ listeners' = LLPush(listeners, l)
           /\ hooks' = IF firstListener /\ hooks.on
                       THEN [hooks EXCEPT !.firstAdd = @ + 1, !.firstDidAdd = @ + 1]
                       ELSE hooks
           /\ hookLog' = IF firstListener /\ hooks.on
                         THEN hookLog \o <<Hooked("firstAdd", listeners),
                                           Hooked("firstDidAdd", listeners')>>
                         ELSE hookLog
           /\ handle' = [handle EXCEPT ![l].cell = "set"]
           /\ nextListener' = l + 1
    /\ UNCHANGED <<deliveryQueue, disposed, stack, exc, log, fires, nEmitterDispose,
                   subsAtDispose>>
    /\ UNCHANGED nonEmVars

\* event.ts:234-242: the body of the subscription's callback, after
\* removeMonitor (absent here): the listener list it leaves.
RemoveListener(ls, l) == IF ~disposed THEN LLRemove(ls, l) ELSE ls

\* event.ts:236-241: whether the callback invokes onLastListenerRemove.
LastRemovedAlways(ls) == ~disposed /\ hooks.on

LastRemoved(ls) == ~disposed /\ hooks.on /\ LLIsEmpty(ls)

\* The number of dispose() calls made on subscription handles so far.
RECURSIVE CallsUpTo(_)
CallsUpTo(n) == IF n = 0 THEN 0 ELSE handle[n].calls + CallsUpTo(n - 1)

HandleDisposals == CallsUpTo(MaxListeners)

\* lifecycle.ts:231-237: dispose() of the handle event() returned: the
\* callback runs if it is still present, and is then cleared.
DisposeHandle ==
    /\ UserCode
    /\ \E l \in 1..MaxListeners :
        /\ handle[l].cell # "none"
        /\ handle[l].calls < MaxDisposeCalls
        /\ HandleDisposals < MaxHandleDisposals
        /\ IF handle[l].cell = "set"
           THEN /\ listeners' = RemoveListener(listeners, l)
                /\ hooks' = IF LastRemoved(listeners')
                            THEN [hooks EXCEPT !.lastRemove = @ + 1] ELSE hooks
                /\ hookLog' = IF LastRemoved(listeners')
                              THEN Append(hookLog, Hooked("lastRemove", listeners'))
                              ELSE hookLog
           ELSE UNCHANGED <<listeners, hooks, hookLog>>
        /\ handle' = [handle EXCEPT ![l] = [cell |-> "cleared",
                                            calls |-> @.calls + 1,
                                            idle |-> @.idle \/ stack = <<>>]]
    /\ UNCHANGED <<listenersDefined, deliveryQueue, disposed, stack, exc, log, fires,
                   nextListener, nEmitterDispose, subsAtDispose>>
    /\ UNCHANGED nonEmVars

\* event.ts:271-273: one pair per listener, in list order.
PairsReversed(ls, ev, f) ==
    [i \in 1..Len(ls) |-> [lis |-> ls[Len(ls) + 1 - i], ev |-> ev, src |-> f]]

Pairs(ls, ev, f) == [i \in 1..Len(ls) |-> [lis |-> ls[i], ev |-> ev, src |-> f]]

\* The handles disposed, so far, while no delivery was in progress.
Gone == {l \in 1..MaxListeners : handle[l].idle}

\* The fire() calls that are on the call stack.
Running == {stack[i].f : i \in DOMAIN stack}

\* event.ts:272: push appends the pair to the shared delivery queue.
EnqueueFront(q, ps) == ps \o q

Enqueue(q, ps) == q \o ps

\* event.ts:261-276: fire(event) up to its drain loop.  Without a listener
\* list it returns at once.
Fire ==
    /\ UserCode
    /\ Len(fires) < MaxFires
    /\ \E ev \in Events :
        LET f == Len(fires) + 1
            rec == [ev |-> ev, nsubs |-> nextListener - 1, gone |-> Gone,
                    within |-> Running, snap |-> <<>>, st |-> "returned"]
        IN  IF listenersDefined
            THEN /\ deliveryQueue' = Enqueue(deliveryQueue, Pairs(listeners, ev, f))
                 /\ fires' = Append(fires, [rec EXCEPT !.snap = listeners,
                                                       !.st = "running"])
                 /\ stack' = Append(stack, [k |-> "fire", f |-> f, lis |-> 0])
            ELSE /\ fires' = Append(fires, rec)
                 /\ UNCHANGED <<deliveryQueue, stack>>
    /\ UNCHANGED <<listenersDefined, listeners, disposed, handle, hooks, exc, log,
                   nextListener, nEmitterDispose,
                   subsAtDispose, hookLog>>
    /\ UNCHANGED nonEmVars

\* event.ts:279-281: the pair shifted is invoked as it was queued; the
\* listener list is not consulted again.
InvokesIfListed(p, ls) == p.lis \in Range(ls)

Invokes(p, ls) == TRUE

\* event.ts:278-281: shift the head pair and invoke its listener.
Deliver ==
    /\ InFire
    /\ deliveryQueue # <<>>
    /\ LET p == Head(deliveryQueue)
           f == Top(stack).f
       IN  /\ deliveryQueue' = Tail(deliveryQueue)
           /\ IF Invokes(p, listeners)
              THEN /\ log' = Append(log, [lis |-> p.lis, ev |-> p.ev,
                                          src |-> p.src, by |-> f])
                   /\ stack' = Append(stack, [k |-> "cb", f |-> f, lis |-> p.lis])
              ELSE UNCHANGED <<log, stack>>
    /\ UNCHANGED <<listenersDefined, listeners, disposed, handle, hooks, exc, fires,
                   nextListener, nEmitterDispose,
                   subsAtDispose, hookLog>>
    /\ UNCHANGED nonEmVars

\* event.ts:278, 287-289: the queue is empty, fire() returns.
FireReturn ==
    /\ InFire
    /\ deliveryQueue = <<>>
    /\ fires' = [fires EXCEPT ![Top(stack).f].st = "returned"]
    /\ stack' = Pop(stack)
    /\ UNCHANGED <<listenersDefined, listeners, deliveryQueue, disposed, handle, hooks,
                   exc, log, nextListener, nEmitterDispose,
                   subsAtDispose, hookLog>>
    /\ UNCHANGED nonEmVars

\* event.ts:131-133: the callback returns to the drain loop.
CallbackReturn ==
    /\ ~exc
    /\ TopIsCallback
    /\ stack' = Pop(stack)
    /\ UNCHANGED <<listenersDefined, listeners, deliveryQueue, disposed, handle, hooks,
                   exc, log, fires, nextListener, nEmitterDispose,
                   subsAtDispose, hookLog>>
    /\ UNCHANGED nonEmVars

\* The callback throws.
CallbackThrow ==
    /\ ~exc
    /\ TopIsCallback
    /\ stack' = Pop(stack)
    /\ exc' = TRUE
    /\ UNCHANGED <<listenersDefined, listeners, deliveryQueue, disposed, handle, hooks,
                   log, fires, nextListener, nEmitterDispose,
                   subsAtDispose, hookLog>>
    /\ UNCHANGED nonEmVars

\* event.ts:280-284: what fire() does with an exception of listener.invoke:
\* TRUE when it leaves fire() for its caller.
RethrowsNot == FALSE

Rethrows == TRUE

\* event.ts:282-284: catch (e) { throw e }.
FireCatch ==
    /\ exc
    /\ TopIsFire
    /\ IF Rethrows
       THEN /\ fires' = [fires EXCEPT ![Top(stack).f].st = "threw"]
            /\ stack' = Pop(stack)
            /\ UNCHANGED exc
       ELSE /\ exc' = FALSE
            /\ UNCHANGED <<fires, stack>>
    /\ UNCHANGED <<listenersDefined, listeners, deliveryQueue, disposed, handle, hooks,
                   log, nextListener, nEmitterDispose,
                   subsAtDispose, hookLog>>
    /\ UNCHANGED nonEmVars

\* The caller of a fire() that threw, a listener callback or top-level code,
\* catches the exception ...
CallerCatch ==
    /\ exc
    /\ (stack = <<>> \/ TopIsCallback)
    /\ exc' = FALSE
    /\ UNCHANGED <<listenersDefined, listeners, deliveryQueue, disposed, handle, hooks,
                   stack, log, fires, nextListener, nEmitterDispose,
                   subsAtDispose, hookLog>>
    /\ UNCHANGED nonEmVars

\* ... or, a callback, lets it pass to the fire() that invoked it.
CallbackPropagate ==
    /\ exc
    /\ TopIsCallback
    /\ stack' = Pop(stack)
    /\ UNCHANGED <<listenersDefined, listeners, deliveryQueue, disposed, handle, hooks,
                   exc, log, fires, nextListener, nEmitterDispose,
                   subsAtDispose, hookLog>>
    /\ UNCHANGED nonEmVars

\* event.ts:184: this._deliveryQueue?.clear().
DisposeQueueKept(q) == q

DisposeQueue(q) == LLClear(q)

\* event.ts:155-188: Emitter.dispose() (_enableDisposeWithListenerWarning is
\* false, event.ts:5).
EmitterDispose ==
    /\ UserCode
    /\ nEmitterDispose < MaxDisposeCalls
    /\ nEmitterDispose' = nEmitterDispose + 1
    /\ IF ~disposed
       THEN /\ disposed' = TRUE
            /\ listeners' = LLClear(listeners)
            /\ deliveryQueue' = DisposeQueue(deliveryQueue)
            /\ hooks' = IF hooks.on THEN [hooks EXCEPT !.lastRemove = @ + 1] ELSE hooks
            /\ hookLog' = IF hooks.on
                          THEN Append(hookLog, Hooked("lastRemove", listeners'))
                          ELSE hookLog
            /\ subsAtDispose' = nextListener - 1
       ELSE UNCHANGED <<disposed, listeners, deliveryQueue, hooks, subsAtDispose,
                        hookLog>>
    /\ UNCHANGED <<listenersDefined, handle, stack, exc, log, fires, nextListener>>
    /\ UNCHANGED nonEmVars

NextEmitter ==
    \/ Subscribe
    \/ DisposeHandle
    \/ Fire
    \/ Deliver
    \/ FireReturn
    \/ CallbackReturn
    \/ CallbackThrow
    \/ FireCatch
    \/ CallerCatch
    \/ CallbackPropagate
    \/ EmitterDispose

-----------------------------------------------------------------------------
(* Emitter: the claims *)

\* The invocations of the pairs fire f queued, in order.
Delivered(f) ==
    LET own == SelectSeq(log, LAMBDA e : e.src = f)
    IN  [i \in 1..Len(own) |-> [lis |-> own[i].lis, ev |-> own[i].ev]]

\* No listener has thrown so far.
NoThrow == ~exc /\ \A f \in DOMAIN fires : fires[f].st # "threw"

\* C4: N subscriptions, then fire(v), no listener throwing and nothing
\* disposed: when fire() returns each of the N callbacks has been invoked
\* exactly once with v, in subscription order.
C4_FireInvokesAllInOrder ==
    \A f \in DOMAIN fires :
        (fires[f].st = "returned" /\ NoThrow /\ ~disposed /\ HandleDisposals = 0)
            => Delivered(f) = [i \in 1..fires[f].nsubs |-> [lis |-> i, ev |-> fires[f].ev]]

\* Three subscriptions followed by one fire() that has returned.
C4_Witness ==
    /\ NoThrow /\ ~disposed /\ HandleDisposals = 0
    /\ Len(fires) = 1
    /\ fires[1].st = "returned"
    /\ fires[1].nsubs = 3
    /\ Len(log) = 3

\* C5, first part: a listener whose handle was disposed while no delivery was
\* in progress is invoked by no fire() called after that.
C5_DisposedNotInvoked ==
    \A k \in DOMAIN log : log[k].lis \notin fires[log[k].by].gone

\* C5, second part: a dispose() of a handle that was disposed before removes
\* no listener and invokes no hook.
C5_SecondDisposeNoEffect ==
    \A l \in 1..MaxListeners :
        (handle[l].calls >= 1 /\ handle'[l].calls > handle[l].calls)
            => UNCHANGED <<listeners, hooks>>

\* C5: once a subscription's handle is disposed while no delivery is in
\* progress no later fire() invokes the listener, whenever the subscription
\* was made; and disposing the handle a second time has no effect.
C5_HandleDisposal == []C5_DisposedNotInvoked /\ [][C5_SecondDisposeNoEffect]_vars

\* C6: re-entrant fire.  Pairs are delivered in the order they were queued, so
\* every pair of the outer fire(a) comes before any pair of a fire(b) called
\* from a listener during its drain; and when the outer fire() returns (the
\* emitter not having been disposed meanwhile) every pair of both has been
\* delivered.
C6_ReentrantFire ==
    /\ \A i, j \in DOMAIN log : i < j => log[i].src <= log[j].src
    /\ \A f, g \in DOMAIN fires :
           (f \in fires[g].within /\ fires[f].st = "returned" /\ ~disposed)
               => /\ Delivered(f) = [i \in 1..Len(fires[f].snap) |->
                                        [lis |-> fires[f].snap[i], ev |-> fires[f].ev]]
                  /\ Delivered(g) = [i \in 1..Len(fires[g].snap) |->
                                        [lis |-> fires[g].snap[i], ev |-> fires[g].ev]]

\* fire(a) with two listeners has returned; the first listener called fire(b)
\* while the second pair of a was still queued.
C6_Witness ==
    /\ ~disposed
    /\ Len(fires) = 2
    /\ fires[1].st = "returned"
    /\ fires[2].within = {1}
    /\ Len(fires[1].snap) = 2
    /\ Len(fires[2].snap) = 2
    /\ Len(log) = 4
    /\ log[2].src = 1
    /\ log[2].by = 2

\* C11, the disposing call: the first dispose() sets _disposed, empties the
\* listener list and the delivery queue and invokes onLastListenerRemove once
\* if it is configured (no other hook); a later dispose() changes nothing.
C11_DisposeStep ==
    (nEmitterDispose' = nEmitterDispose + 1)
        => IF ~disposed
           THEN /\ disposed'
                /\ listeners' = <<>>
                /\ deliveryQueue' = <<>>
                /\ hooks' = [hooks EXCEPT
                                !.lastRemove = IF hooks.on THEN @ + 1 ELSE @]
           ELSE UNCHANGED <<listenersDefined, listeners, deliveryQueue, disposed, handle,
                            hooks, stack, exc, log, fires, nextListener>>

\* C11, afterwards: once the emitter is disposed no listener subscribed
\* before the disposal is invoked again, neither by the drain that was in
\* progress nor by a later fire().
C11_NoLaterInvocation ==
    (disposed' /\ Len(log') > Len(log)) => log'[Len(log')].lis > subsAtDispose'

\* C11: Emitter.dispose() empties the listener list and the delivery queue, so
\* that listeners subscribed before the disposal are invoked by no later
\* fire() and a drain in progress stops; it invokes onLastListenerRemove
\* exactly once if configured; a second dispose() invokes no hook and
\* changes no state.
C11_EmitterDispose == [][C11_DisposeStep /\ C11_NoLaterInvocation]_vars

\* A listener disposed the emitter (hooks configured) while the pair of the
\* second listener was queued; the drain stopped, fire() returned, dispose()
\* was called once more, and a later fire() has returned as well.
C11_Witness ==
    /\ disposed
    /\ hooks.on
    /\ hooks.lastRemove = 1
    /\ nEmitterDispose = 2
    /\ subsAtDispose = 2
    /\ Len(fires) = 2
    /\ Len(fires[1].snap) = 2
    /\ fires[1].st = "returned"
    /\ fires[2].st = "returned"
    /\ fires[2].within = {}
    /\ Len(log) = 1
    /\ stack = <<>>

\* C16: fire(v) on an emitter that has no listeners at that time is a no-op:
\* that call invokes no callback, whatever happened before, an earlier fire()
\* ended by a listener's exception and a fire() made from inside a listener
\* callback included.
C16_FireWithoutListeners ==
    \A k \in DOMAIN log : fires[log[k].by].snap # <<>>

\* The listeners a fire() was called with, paired with its value.
Snapshot(f) == [i \in 1..Len(fires[f].snap) |-> [lis |-> fires[f].snap[i], ev |-> fires[f].ev]]

\* C17: the listeners that receive the value of a fire(v) are those in the
\* list when the call queued its pairs: a pair invoked was queued for a
\* listener in the list at that time, so a listener subscribed during the
\* drain does not receive v; and when the call has returned (no listener
\* having thrown, the emitter not disposed) every listener of that list has
\* received v, those whose handles were disposed during the drain included.
C17_SnapshotDelivery ==
    /\ \A k \in DOMAIN log :
           /\ log[k].lis \in Range(fires[log[k].src].snap)
           /\ log[k].ev = fires[log[k].src].ev
    /\ \A f \in DOMAIN fires :
           (fires[f].st = "returned" /\ NoThrow /\ ~disposed)
               => Delivered(f) = Snapshot(f)

\* fire(v) with listeners 1 and 2: during the drain the handle of listener 2
\* was disposed and listener 3 subscribed; fire() has returned, 1 and 2 were
\* invoked, 3 was not.
C17_Witness ==
    /\ NoThrow /\ ~disposed
    /\ Len(fires) = 1
    /\ fires[1].st = "returned"
    /\ fires[1].snap = <<1, 2>>
    /\ handle[2].cell = "cleared"
    /\ ~handle[2].idle
    /\ listeners = <<1, 3>>
    /\ Len(log) = 2
    /\ log[2].lis = 2

\* The invocations of onFirstListenerAdd and onLastListenerRemove, in order.
AddsAndRemoves == SelectSeq(hookLog, LAMBDA h : h.hook \in {"firstAdd", "lastRemove"})

\* C21: before the emitter is disposed, onFirstListenerAdd is invoked on the
\* subscriptions that find the list empty, before the listener is recorded,
\* onFirstListenerDidAdd right after it is recorded, onLastListenerRemove on
\* the handle disposals that leave the list empty; first-add and last-remove
\* invocations alternate, first-add first, and hasListeners() is true exactly
\* when there has been one more first-add than last-remove.
C21_HookProtocol ==
    (hooks.on /\ ~disposed)
        => /\ \A k \in DOMAIN hookLog :
                  /\ hookLog[k].hook = "firstAdd"
                         => /\ hookLog[k].size = 0
                            /\ k < Len(hookLog)
                            /\ hookLog[k + 1] = [hook |-> "firstDidAdd", size |-> 1]
                  /\ hookLog[k].hook = "firstDidAdd"
                         => k > 1 /\ hookLog[k - 1].hook = "firstAdd"
                  /\ hookLog[k].hook = "lastRemove" => hookLog[k].size = 0
           /\ \A k \in DOMAIN AddsAndRemoves :
                  AddsAndRemoves[k].hook = IF k % 2 = 1 THEN "firstAdd" ELSE "lastRemove"
           /\ hooks.firstAdd = hooks.firstDidAdd
           /\ HasListeners <=> hooks.firstAdd = hooks.lastRemove + 1
           /\ ~HasListeners <=> hooks.firstAdd = hooks.lastRemove

\* Listeners 1 and 2 subscribed, both handles were disposed, then listener 3
\* subscribed: first-add, last-remove and first-add again, with one listener
\* in the list.
C21_Witness ==
    /\ hooks.on /\ ~disposed
    /\ listeners = <<3>>
    /\ handle[1].cell = "cleared"
    /\ handle[2].cell = "cleared"
    /\ Len(AddsAndRemoves) = 3
    /\ hooks.firstAdd = 2
    /\ hooks.lastRemove = 1

\* event.ts:280-284 seen from outside: the step fire() takes when an exception
\* of a listener reaches it.
C7_ThrowStep ==
    (exc /\ TopIsFire)
        => /\ exc'
           /\ stack' = Pop(stack)
           /\ fires'[Top(stack).f].st = "threw"
           /\ log' = log
           /\ deliveryQueue' = deliveryQueue

\* C7: when a listener callback throws, the exception leaves fire() for its
\* caller at once: the fire() that invoked the listener ends with the
\* exception still propagating and invokes no further listener, the pairs
\* queued behind the throwing one staying undelivered.
C7_DeliveryFailure == [][C7_ThrowStep]_vars

\* The second of three listeners threw: the exception has reached the caller
\* of fire() and the third listener's pair is still queued, not invoked.
C7_Witness ==
    /\ exc
    /\ stack = <<>>
    /\ Len(fires) = 1
    /\ fires[1].st = "threw"
    /\ Len(fires[1].snap) = 3
    /\ Len(log) = 2
    /\ Len(deliveryQueue) = 1

-----------------------------------------------------------------------------
(* DisposableStore (lifecycle.ts:130-192) and dispose() (lifecycle.ts:85-115). *)
(* A resource's dispose() is user code: it may add to the store, clear or    *)
(* dispose it again, throw or return.  An error is identified by the         *)
(* resource whose dispose() threw it.                                        *)

Resources == 1..MaxResources

\* The store itself, and the Disposable whose _store it is (lifecycle.ts:197),
\* as arguments of add() and _register().
StoreItself == MaxResources + 1

DisposableItself == MaxResources + 2

Objects == Resources \cup {StoreItself, DisposableItself}

NoError == [kind |-> "none", errs |-> <<>>]

\* lifecycle.ts:178 and 212: Error('Cannot register a disposable on itself!').
SelfError == [kind |-> "self", errs |-> <<>>]

InitStore ==
    /\ toDispose = <<>>
    /\ isDisposed = FALSE
    /\ stStack = <<>>
    /\ stExc = NoError
    /\ disposeCalls = [r \in Objects |-> 0]
    /\ leaked = {}
    /\ sweeps = <<>>
    /\ stOps = 0
    /\ addLog = <<>>

StTopIsResource == IF stStack = <<>> THEN FALSE ELSE Top(stStack).k = "res"

StTopIsSweep == IF stStack = <<>> THEN FALSE ELSE Top(stStack).k = "sweep"

\* User code is running: at top level, or inside a resource's dispose().
StUserCode == stExc = NoError /\ (stStack = <<>> \/ StTopIsResource)

\* Set.prototype.add: a member is not added again; insertion order is kept.
SetAddAgain(set, o) == Append(set, o)

SetAdd(set, o) == IF o \in Range(set) THEN set ELSE Append(set, o)

\* lifecycle.ts:177 and 211: the tests add(o) and _register(o) make; a
\* _register(o) that passes its own test calls this._store.add(o).
SelfRegistrationUnchecked(via, o) == FALSE

SelfRegistration(via, o) ==
    \/ via = "_register" /\ o = DisposableItself
    \/ o = StoreItself

\* lifecycle.ts:182-188: whether add(o) puts o into the owned set.
RetainsAlways(flag) == TRUE

Retains(flag) == ~flag

\* lifecycle.ts:173-191 and 210-215: add(o) on the store, or _register(o) on
\* the Disposable that holds it.  It throws, or returns o.
Add ==
    /\ StUserCode
    /\ stOps < MaxStoreOps
    /\ stOps' = stOps + 1
    /\ \E via \in {"add", "_register"}, o \in Objects :
        /\ o = DisposableItself => via = "_register"
        /\ IF SelfRegistration(via, o)
           THEN /\ stExc' = SelfError
                /\ UNCHANGED <<toDispose, leaked>>
           ELSE /\ UNCHANGED stExc
                /\ IF Retains(isDisposed)
                   THEN /\ toDispose' = SetAdd(toDispose, o)
                        /\ UNCHANGED leaked
                   ELSE /\ leaked' = leaked \cup {o}
                        /\ UNCHANGED toDispose
        /\ addLog' = Append(addLog,
               [o     |-> o,
                self  |-> o = StoreItself \/ (via = "_register" /\ o = DisposableItself),
                late  |-> isDisposed,
                owned |-> o \in Range(toDispose),
                threw |-> stExc' # NoError,
                ret   |-> IF stExc' # NoError THEN 0 ELSE o,
                cnt   |-> disposeCalls[o]])
    /\ UNCHANGED <<isDisposed, stStack, disposeCalls, sweeps>>
    /\ UNCHANGED nonStVars

\* lifecycle.ts:165-167: clear() calls dispose(this._toDispose.values()): the
\* frame of that loop, with the ghosts that say what it was given.
SweepFrame(op) ==
    [k |-> "sweep", idx |-> 0, errors |-> <<>>, r |-> 0,
     owned |-> Range(toDispose), cnt |-> disposeCalls, op |-> op]

\* lifecycle.ts:151 and 165-171: _isDisposed after dispose() and after clear().
MarkedAlways(op, flag) == TRUE

Marked(op, flag) == IF op = "dispose" THEN TRUE ELSE flag

\* lifecycle.ts:165-171: clear().
StoreClear ==
    /\ StUserCode
    /\ stOps < MaxStoreOps
    /\ stOps' = stOps + 1
    /\ stStack' = Append(stStack, SweepFrame("clear"))
    /\ isDisposed' = Marked("clear", isDisposed)
    /\ UNCHANGED <<toDispose, stExc, disposeCalls, leaked, sweeps, addLog>>
    /\ UNCHANGED nonStVars

\* lifecycle.ts:145-153: dispose().
StoreDispose ==
    /\ StUserCode
    /\ stOps < MaxStoreOps
    /\ stOps' = stOps + 1
    /\ IF isDisposed
       THEN UNCHANGED <<isDisposed, stStack>>
       ELSE /\ isDisposed' = Marked("dispose", isDisposed)
            /\ stStack' = Append(stStack, SweepFrame("dispose"))
    /\ UNCHANGED <<toDispose, stExc, disposeCalls, leaked, sweeps, addLog>>
    /\ UNCHANGED nonStVars

\* lifecycle.ts:94: the iterator of the live Set has a next value.
SweepHasNext(frame) == frame.idx < Len(toDispose)

\* lifecycle.ts:94-97: the loop takes the next resource and calls its dispose().
SweepNext ==
    /\ stExc = NoError
    /\ StTopIsSweep
    /\ SweepHasNext(Top(stStack))
    /\ LET n == Len(stStack)
           d == toDispose[stStack[n].idx + 1]
       IN  /\ disposeCalls' = [disposeCalls EXCEPT ![d] = @ + 1]
           /\ stStack' = Append([stStack EXCEPT ![n].idx = @ + 1],
                                [k |-> "res", idx |-> 0, errors |-> <<>>, r |-> d,
                                 owned |-> {}, cnt |-> disposeCalls, op |-> "none"])
    /\ UNCHANGED <<toDispose, isDisposed, stExc, leaked, sweeps, stOps, addLog>>
    /\ UNCHANGED nonStVars

\* lifecycle.ts:104-110: what dispose(iterable) throws after its loop.
OutcomeFirstOnly(errors) ==
    IF Len(errors) = 0 THEN NoError
    ELSE [kind |-> "single", errs |-> <<errors[1]>>]

Outcome(errors) ==
    IF Len(errors) = 1 THEN [kind |-> "single", errs |-> errors]
    ELSE IF Len(errors) > 1 THEN [kind |-> "multi", errs |-> errors]
    ELSE NoError

\* lifecycle.ts:169: this._toDispose.clear().  The iterators of the sweeps
\* still on the stack go on with what is added from now on.
SetClear(set) == <<>>

Rewound(stk) == [i \in DOMAIN stk |-> [stk[i] EXCEPT !.idx = 0]]

\* lifecycle.ts:104-110 and 168-170: the loop is over; dispose(iterable)
\* throws what it collected, and clear()'s finally empties the set.
SweepEnd ==
    /\ stExc = NoError
    /\ StTopIsSweep
    /\ ~SweepHasNext(Top(stStack))
    /\ LET frame == Top(stStack)
       IN  /\ stExc' = Outcome(frame.errors)
           /\ toDispose' = SetClear(toDispose)
           /\ stStack' = Rewound(Pop(stStack))
           /\ sweeps' = Append(sweeps,
                  [op     |-> frame.op,
                   owned  |-> frame.owned,
                   missed |-> {r \in frame.owned : disposeCalls[r] = frame.cnt[r]},
                   raised |-> frame.errors,
                   thrown |-> stExc',
                   left   |-> Len(toDispose')])
    /\ UNCHANGED <<isDisposed, disposeCalls, leaked, stOps, addLog>>
    /\ UNCHANGED nonStVars

\* The resource's dispose() returns.
ResourceReturn ==
    /\ stExc = NoError
    /\ StTopIsResource
    /\ stStack' = Pop(stStack)
    /\ UNCHANGED <<toDispose, isDisposed, stExc, disposeCalls, leaked, sweeps, stOps, addLog>>
    /\ UNCHANGED nonStVars

\* lifecycle.ts:98-100: catch (e) { errors.push(e) } in the loop below the
\* resource's frame.
Caught(stk, e) == [Pop(stk) EXCEPT ![Len(stk) - 1].errors = Append(@, e)]

\* The resource's dispose() throws an error of its own, or lets the error of
\* a clear()/dispose() it called pass.
ResourceThrow ==
    /\ StTopIsResource
    /\ stStack' = Caught(stStack, Top(stStack).r)
    /\ stExc' = NoError
    /\ UNCHANGED <<toDispose, isDisposed, disposeCalls, leaked, sweeps, stOps, addLog>>
    /\ UNCHANGED nonStVars

\* The caller of a clear()/dispose() that threw catches the error.
StoreCallerCatch ==
    /\ stExc # NoError
    /\ (stStack = <<>> \/ StTopIsResource)
    /\ stExc' = NoError
    /\ UNCHANGED <<toDispose, isDisposed, stStack, disposeCalls, leaked, sweeps, stOps, addLog>>
    /\ UNCHANGED nonStVars

NextStore ==
    \/ Add
    \/ StoreClear
    \/ StoreDispose
    \/ SweepNext
    \/ SweepEnd
    \/ ResourceReturn
    \/ ResourceThrow
    \/ StoreCallerCatch

-----------------------------------------------------------------------------
(* DisposableStore: the claims *)

\* C8: dispose() and clear() call dispose() on every registered resource even
\* when some throw; one error is rethrown as it is, two or more are thrown as
\* one MultiDisposeError carrying them all; the owned set is empty afterwards.
C8_DisposeAllAndAggregate ==
    \A k \in DOMAIN sweeps :
        LET s == sweeps[k]
        IN  /\ s.missed = {}
            /\ Len(s.raised) = 0 => s.thrown = NoError
            /\ Len(s.raised) = 1 => s.thrown = [kind |-> "single", errs |-> s.raised]
            /\ Len(s.raised) > 1 => s.thrown = [kind |-> "multi", errs |-> s.raised]
            /\ s.left = 0

\* A store holding three resources was swept: the first two threw, the third,
\* disposed after them, did not; both errors are carried by the error thrown.
C8_Witness ==
    /\ Len(sweeps) = 1
    /\ sweeps[1].owned = {1, 2, 3}
    /\ sweeps[1].raised = <<1, 2>>
    /\ \A r \in Resources : disposeCalls[r] = 1
    /\ stExc.kind = "multi"
    /\ toDispose = <<>>

\* The add() or _register() call a step makes: the entry it appends to the log.
AddCalled == Len(addLog') = Len(addLog) + 1

LastAdd == addLog'[Len(addLog')]

\* C12, the call: a self-registration throws and changes nothing of the store.
C12_Step ==
    (AddCalled /\ LastAdd.self)
        => /\ stExc' = SelfError
           /\ UNCHANGED <<toDispose, isDisposed, disposeCalls, stStack, leaked>>

\* C12: add(the store itself) and _register(the Disposable itself) throw
\* synchronously and leave the store as it was: the owned set, the disposed
\* flag and every resource registered before.
C12_SelfRegistration == [][C12_Step]_vars

\* A store owning resource 1: add(store) threw and was caught, then
\* _register(the Disposable) threw; resource 1 is still owned, not disposed.
C12_Witness ==
    /\ Len(addLog) = 3
    /\ addLog[2].o = StoreItself
    /\ addLog[2].threw
    /\ addLog[3].o = DisposableItself
    /\ addLog[3].threw
    /\ stExc = SelfError
    /\ toDispose = <<1>>
    /\ disposeCalls[1] = 0
    /\ ~isDisposed

C14_Step ==
    (AddCalled /\ LastAdd.late /\ ~LastAdd.self)
        => disposeCalls'[LastAdd.o] = disposeCalls[LastAdd.o] + 1

C14_DisposedOnAdd == [][C14_Step]_vars

\* C15, the calls: clear() leaves _isDisposed as it is, and add(o) on a store
\* that is not disposed retains o.
C15_Step ==
    /\ (Len(stStack') = Len(stStack) + 1 /\ Top(stStack').op = "clear")
           => isDisposed' = isDisposed
    /\ (AddCalled /\ ~LastAdd.late /\ ~LastAdd.self)
           => LastAdd.o \in Range(toDispose')

\* C15, the sweeps: a clear() that has ended disposed all the store owned and
\* left the owned set empty; so did every clear() or dispose() after it, for
\* what was added in between.
C15_Swept ==
    \A k \in DOMAIN sweeps : sweeps[k].missed = {} /\ sweeps[k].left = 0

\* C15: clear() disposes every currently owned resource and empties the owned
\* set but leaves isDisposed false; the store stays usable: a resource added
\* after clear() is retained and is disposed by the next clear() or dispose().
C15_ClearKeepsUsable == [][C15_Step]_vars /\ []C15_Swept

\* add(1), clear(), add(2), clear(): each clear() disposed what was owned, the
\* store is not disposed and owns nothing.
C15_Witness ==
    /\ ~isDisposed
    /\ Len(sweeps) = 2
    /\ sweeps[1].op = "clear"
    /\ sweeps[1].owned = {1}
    /\ sweeps[2].op = "clear"
    /\ sweeps[2].owned = {2}
    /\ disposeCalls[1] = 1
    /\ disposeCalls[2] = 1
    /\ toDispose = <<>>
    /\ stStack = <<>>

\* No clear() has been called on the store, other than by its dispose().
NoClearCalled ==
    /\ \A k \in DOMAIN sweeps : sweeps[k].op # "clear"
    /\ \A k \in DOMAIN stStack : stStack[k].op # "clear"

\* C22: with add() and dispose() calls only (on the store, or _register() and
\* dispose() on the Disposable that holds it), the store calls the dispose()
\* of each resource at most once, also when the resource was added several
\* times or dispose() is called several times, from inside a resource's own
\* dispose() included.
C22_AtMostOnce ==
    NoClearCalled => \A r \in Resources : disposeCalls[r] <= 1

\* Resource 1 was added twice, the store disposed; dispose() was called again
\* from inside the dispose() of resource 1, which is still executing.
C22_Witness ==
    /\ NoClearCalled
    /\ stOps = 4
    /\ Len(addLog) = 2
    /\ addLog[1].o = 1 /\ ~addLog[1].late
    /\ addLog[2].o = 1 /\ ~addLog[2].late
    /\ sweeps = <<>>
    /\ Len(stStack) = 2
    /\ isDisposed
    /\ disposeCalls[1] = 1

-----------------------------------------------------------------------------
(* SafeDisposable (lifecycle.ts:218-240).  fn, the function given to set(), *)
(* is user code: while it runs it may call dispose() or unset() on the cell *)
(* again, throw or return.                                                  *)

InitCell ==
    /\ callback = FALSE
    /\ armed = FALSE
    /\ cbDepth = 0
    /\ cellLog = <<>>

\* The dispose() and unset() calls made so far.
CellCalls == Len(SelectSeq(cellLog, LAMBDA x : x \in {"dispose", "unset"}))

\* lifecycle.ts:227-239: set(fn), once, from top-level code.
CellSet ==
    /\ ~armed
    /\ cbDepth = 0
    /\ armed' = TRUE
    /\ callback' = TRUE
    /\ cellLog' = Append(cellLog, "set")
    /\ UNCHANGED cbDepth
    /\ UNCHANGED nonCellVars

\* lifecycle.ts:232: the test dispose() makes before it calls the callback.
CallbackPresent == callback

\* lifecycle.ts:219 and 231-237: dispose().  Before set() it does nothing;
\* after, it calls the callback if there is one (and clears it when the call
\* has returned, see CellCallbackReturn).
CellDispose ==
    /\ CellCalls < MaxCellCalls
    /\ IF armed /\ CallbackPresent
       THEN /\ cbDepth' = cbDepth + 1
            /\ cellLog' = cellLog \o <<"dispose", "invoke">>
       ELSE /\ cellLog' = Append(cellLog, "dispose")
            /\ UNCHANGED cbDepth
    /\ UNCHANGED <<callback, armed>>
    /\ UNCHANGED nonCellVars

\* lifecycle.ts:233-235: fn returns; dispose() clears the callback.
CellCallbackReturn ==
    /\ cbDepth > 0
    /\ cbDepth' = cbDepth - 1
    /\ callback' = FALSE
    /\ UNCHANGED <<armed, cellLog>>
    /\ UNCHANGED nonCellVars

\* lifecycle.ts:233: fn throws; lines 234-235 are skipped.
CellCallbackThrow ==
    /\ cbDepth > 0
    /\ cbDepth' = cbDepth - 1
    /\ UNCHANGED <<callback, armed, cellLog>>
    /\ UNCHANGED nonCellVars

\* lifecycle.ts:220 and 229: unset().
CellUnset ==
    /\ CellCalls < MaxCellCalls
    /\ callback' = FALSE
    /\ cellLog' = Append(cellLog, "unset")
    /\ UNCHANGED <<armed, cbDepth>>
    /\ UNCHANGED nonCellVars

\* lifecycle.ts:221 and 230: isset().
Isset == armed /\ callback

NextCell ==
    \/ CellSet
    \/ CellDispose
    \/ CellCallbackReturn
    \/ CellCallbackThrow
    \/ CellUnset

-----------------------------------------------------------------------------
(* SafeDisposable: the claim *)

\* The calls and invocations after set(fn).
RECURSIVE AfterSet(_)
AfterSet(l) ==
    IF l = <<>> THEN <<>>
    ELSE IF Head(l) = "set" THEN Tail(l) ELSE AfterSet(Tail(l))

Invocations(l) == Len(SelectSeq(l, LAMBDA x : x = "invoke"))

\* The position of the first dispose() call in l, 0 if there is none.
FirstDispose(l) ==
    IF \E i \in DOMAIN l : l[i] = "dispose"
    THEN CHOOSE i \in DOMAIN l : l[i] = "dispose" /\ \A j \in 1..(i - 1) : l[j] # "dispose"
    ELSE 0

\* C10: after set(cb), whatever dispose() and unset() calls follow (a
\* dispose() made from inside cb included), cb is invoked at most once, and
\* that by the first dispose(), exactly when no unset() came before it; every
\* later dispose() invokes nothing.  (isset() is, by lifecycle.ts:230, the
\* presence of the callback.)
C10_OneShot ==
    LET l == AfterSet(cellLog)
        d == FirstDispose(l)
    IN  /\ Invocations(l) <= 1
        /\ d > 0 => (Invocations(l) = 1 <=> \A j \in 1..(d - 1) : l[j] # "unset")
        /\ \A i \in DOMAIN l : l[i] = "invoke" => i = d + 1

-----------------------------------------------------------------------------
(* LeakageMonitor (event.ts:59-112) and the part of the Emitter that drives *)
(* it: the constructor (event.ts:149-153), event() (event.ts:207-213) and    *)
(* the subscription's callback (event.ts:230-235).  Only the number of       *)
(* listeners matters here, not who they are.                                 *)

\* The places event() is called from (Stacktrace.create, event.ts:114-117).
Sites == {"s1", "s2"}

\* The thresholds tried: none, a small one, and one above LeakCheckMinSize.
Thresholds == {-1, 2, 31}

\* event.ts:209: event() consults the monitor only from this size on.
LeakCheckMinSize == 30

\* event.ts:151: the constructor reads the process-wide threshold as it is
\* then; options.leakWarningThreshold may be absent.
LeakConstructed(global, d, v) ==
    /\ globalLeakWarningThreshold = global
    /\ leakageMon = [exists |-> global > 0, custom |-> [def |-> d, val |-> v]]
    /\ lkSize = 0
    /\ warnCountdown2 = 0
    /\ stacks = [s \in Sites |-> 0]
    /\ monitored = [s \in Sites |-> 0]
    /\ warnings = 0
    /\ lkSubs = 0
    /\ lkDisposals = 0

InitLeak ==
    \E global \in Thresholds, d \in BOOLEAN, v \in Thresholds \ {-1} :
        LeakConstructed(global, d, v)

\* event.ts:72-75: the threshold check() works with.
CheckThreshold ==
    IF leakageMon.custom.def THEN leakageMon.custom.val ELSE globalLeakWarningThreshold

\* event.ts:209: whether event() calls check().
ChecksLeak == leakageMon.exists /\ lkSize >= LeakCheckMinSize

\* event.ts:77: whether check(stack, listenerCount) goes on to count.
Counts(listenerCount) == ~(CheckThreshold <= 0 \/ listenerCount < CheckThreshold)

\* event.ts:196-230: event(callback) from call site s: check() (event.ts:71-
\* 111) when the monitor is consulted, then the listener is pushed.
LeakSubscribe ==
    /\ lkSubs < MaxLeakSubscriptions
    /\ lkSubs' = lkSubs + 1
    /\ lkSize' = lkSize + 1
    /\ \E s \in Sites :
        IF ChecksLeak /\ Counts(lkSize + 1)
        THEN /\ stacks' = [stacks EXCEPT ![s] = @ + 1]
             /\ monitored' = [monitored EXCEPT ![s] = @ + 1]
             /\ IF warnCountdown2 - 2 <= 0
                THEN /\ warnCountdown2' = CheckThreshold
                     /\ warnings' = warnings + 1
                ELSE /\ warnCountdown2' = warnCountdown2 - 2
                     /\ UNCHANGED warnings
        ELSE UNCHANGED <<stacks, monitored, warnCountdown2, warnings>>
    /\ UNCHANGED <<globalLeakWarningThreshold, leakageMon, lkDisposals>>
    /\ UNCHANGED nonLkVars

\* The subscriptions alive that hold no removeMonitor.
Unmonitored == lkSize - (monitored["s1"] + monitored["s2"])

\* event.ts:230-235 and 107-110: a live subscription's handle is disposed:
\* its removeMonitor, if it has one, lowers its site's count; the listener is
\* removed.
LeakDisposeHandle ==
    /\ lkDisposals < MaxLeakDisposals
    /\ lkSize > 0
    /\ lkDisposals' = lkDisposals + 1
    /\ lkSize' = lkSize - 1
    /\ \/ /\ Unmonitored > 0
          /\ UNCHANGED <<stacks, monitored>>
       \/ \E s \in Sites :
             /\ monitored[s] > 0
             /\ stacks' = [stacks EXCEPT ![s] = @ - 1]
             /\ monitored' = [monitored EXCEPT ![s] = @ - 1]
    /\ UNCHANGED <<globalLeakWarningThreshold, leakageMon, warnCountdown2, warnings,
                   lkSubs>>
    /\ UNCHANGED nonLkVars

NextLeak ==
    \/ LeakSubscribe
    \/ LeakDisposeHandle

-----------------------------------------------------------------------------
(* LeakageMonitor: the claim *)

\* The threshold configured for the emitter: its own leakWarningThreshold, or
\* else the process-wide one.
ConfiguredThreshold == CheckThreshold

\* C9: with threshold T in effect, T+1 subscriptions without a disposal give
\* exactly one leak warning, and it stays the only one until the number of
\* listeners has grown by ceil(T/2) more.
C9_LeakWarning ==
    LET T == ConfiguredThreshold
    IN  (T > 0 /\ lkDisposals = 0 /\ lkSubs >= T + 1 /\ lkSubs - (T + 1) < (T + 1) \div 2)
            => warnings = 1

-----------------------------------------------------------------------------
(* The specifications: one per component, the others at rest. *)

RestEmitter == EmitterConstructed(FALSE)

RestLeak == LeakConstructed(-1, FALSE, 2)

\* Each component is checked on its own, the others at rest as constructed.
AtRestThrottler == InitThrottler /\ RestEmitter /\ InitStore /\ InitCell /\ RestLeak

SpecThrottler == AtRestThrottler /\ [][NextThrottler]_vars

\* The scheduling the progress of the Throttler relies on: a factory that was
\* called comes back, the promise it returned settles (the proviso of the
\* claim), and the continuation of an await whose promise has settled is run
\* by the microtask queue.
FairThrottler ==
    /\ WF_vars(FactoryReturn \/ FactoryThrow)
    /\ WF_vars(Fulfil \/ Reject)
    /\ WF_vars(Resume)
    /\ WF_vars(ResumeRejected)

SpecThrottlerFair == AtRestThrottler /\ [][NextThrottler]_vars /\ FairThrottler

Init == InitThrottler /\ InitEmitter /\ InitStore /\ InitCell /\ RestLeak

Next == NextEmitter

SpecEmitter == Init /\ [][Next]_vars

AtRestStore == InitThrottler /\ RestEmitter /\ InitStore /\ InitCell /\ RestLeak

SpecStore == AtRestStore /\ [][NextStore]_vars

AtRestCell == InitThrottler /\ RestEmitter /\ InitStore /\ InitCell /\ RestLeak

SpecCell == AtRestCell /\ [][NextCell]_vars

AtRestLeak == InitThrottler /\ RestEmitter /\ InitStore /\ InitCell /\ InitLeak

SpecLeak == AtRestLeak /\ [][NextLeak]_vars

Spec == SpecEmitter

=============================================================================
